---- MODULE Spec2Model ----
(***************************************************************************)
(* ipfs-log: an append-only log of content-addressed entries that can be   *)
(* joined with other logs.                                                 *)
(*                                                                         *)
(* Two parts of the repository are modelled.                               *)
(*                                                                         *)
(*  - The log operations of src/src/log.js (the LogUtils class that the    *)
(*    file exports, lines 406-833): create, append, join, _insert, with    *)
(*    the entries its append creates, Entry.create(ipfs, id, data, next)   *)
(*    of src/unnamed/part_003.  Specification Spec runs them on a few      *)
(*    replicas that append to their own log and join the others' logs.     *)
(*                                                                         *)
(*  - EntryCollection.sort of src/src/entry-collection.js with the Entry   *)
(*    helpers it calls (src/unnamed/part_004).  Specification SortSpec     *)
(*    draws an input array and runs the loop of sort one iteration per     *)
(*    step.                                                                *)
(*                                                                         *)
(* Array.prototype.sort is called throughout with comparators that return  *)
(* a boolean, (a, b) => a.id > b.id.  On the engine the repository's tests *)
(* ran on (V8's insertion sort for arrays of at most 10 elements, which    *)
(* moves an element left while comparefn(left, element) > 0) this is a     *)
(* stable sort; JsSort models that, and all arrays of the model are        *)
(* shorter than 10.  Ids are modelled by their rank in string order, and   *)
(* hashes by numbers that are only ever compared for equality here.        *)
(***************************************************************************)
EXTENDS Integers, Sequences, FiniteSets, TLC

\* ------------------------------------------------------------------ bounds

NumReplicas == 3
NumIds == 2
NumPayloads == 2
MaxEntries == 4
MaxHeads == 3
MaxOps == 5
MaxSortEntries == 3
MaxSeq == 2
MaxNext == 2
MaxSortSteps == 16
NumPersistReplicas == 2
MaxPersistOps == 3
MaxBlocks == 1
MaxLength == 2
MaxSize == 2
NumFetchPayloads == 1
MaxFetchOps == 5
MaxExpandOps == 4
MaxExpands == 2
MaxEntryOps == 2

Replicas == 1..NumReplicas
Ids == 1..NumIds
Payloads == 1..NumPayloads
Hashes == 1..MaxEntries

\* ------------------------------------------------------------ JS helpers

\* null, as join reads it for a log without a head entry
Null == 0

Min(a, b) == IF a < b THEN a ELSE b
Max(a, b) == IF a > b THEN a ELSE b

Range(s) == {s[i] : i \in 1..Len(s)}

RECURSIVE MaxOf(_)
\* Math.max.apply(null, s) over a non-empty sequence of integers
MaxOf(s) == IF Len(s) = 1 THEN s[1] ELSE Max(s[1], MaxOf(Tail(s)))

Reverse(s) == [i \in 1..Len(s) |-> s[Len(s) + 1 - i]]

\* lodash take(array, n): the first n elements, none when n <= 0
take(s, n) == SubSeq(s, 1, Min(Max(n, 0), Len(s)))

\* array.splice(index, 0, x) with a 0-based index
Splice(s, index, x) == SubSeq(s, 1, index) \o <<x>> \o SubSeq(s, index + 1, Len(s))

\* array.indexOf(x), 0-based, -1 when absent
IndexOf(s, x) ==
  IF x \in Range(s) THEN (CHOOSE i \in 1..Len(s) : s[i] = x /\ \A j \in 1..(i - 1) : s[j] # x) - 1
  ELSE -1

\* One pass of the insertion sort: element x goes right after the last
\* element of the sorted prefix whose key is not greater than its own.
RECURSIVE InsertByKey(_, _)
InsertByKey(sorted, x) ==
  IF sorted = <<>> THEN <<x>>
  ELSE LET l == sorted[Len(sorted)]
       IN IF l.k > x.k
          THEN InsertByKey(SubSeq(sorted, 1, Len(sorted) - 1), x) \o <<l>>
          ELSE sorted \o <<x>>

RECURSIVE JsSortFrom(_, _)
JsSortFrom(sorted, rest) ==
  IF rest = <<>> THEN sorted
  ELSE JsSortFrom(InsertByKey(sorted, rest[1]), Tail(rest))

\* array.sort((a, b) => key(a) > key(b)) on an array of [k |-> key, v |-> value]
JsSort(s) == JsSortFrom(<<>>, s)

\* a > b as join evaluates it on two ids that may be null: a string against
\* null compares NaN with 0, null against null 0 with 0, both false
JsGt(a, b) == a # Null /\ b # Null /\ a > b

\* ------------------------------------------------------------------ Entry

\* Entry.create(ipfs, id, data, next): the entry that is serialized and put
\* to the block store, with the hash the store answers
EntryCreate(id, data, next, hash) ==
  [hash |-> hash, id |-> id, payload |-> data, next |-> next]

\* An argument of Entry.create(ipfs, id, seq, data, next) is <<>> when it is
\* undefined or null and <<v>> when it is the value v
isDefined(arg) == arg # <<>>

\* The next argument: omitted (the default [] applies), null, a string, or
\* an array of hashes
NextArg(kind, hashes) == [kind |-> kind, hashes |-> hashes]

\* Entry.toMultihash: the hash ipfs.object.put answers for the serialized
\* entry, the hash of the stored block of the same content or one not in use
entryMultihash(stored, id, seq, data, nexts) ==
  LET same == {e \in stored : e.id = id /\ e.seq = seq /\ e.payload = data /\ e.next = nexts}
  IN IF same # {} THEN (CHOOSE e \in same : TRUE).hash ELSE Cardinality(stored) + 1

\* Entry.create(ipfs, id, seq, data, next = []): error is the message of the
\* error thrown or "" , entry the entry it resolves with, stored the block
\* store once it has returned and put whether it called ipfs.object.put
createEntry(stored, ipfs, id, seq, data, next) ==
  LET thrown(message) ==
        [error |-> message, entry |-> <<>>, stored |-> stored, put |-> FALSE]
  IN IF ~ipfs THEN thrown("Ipfs instance not defined")
     ELSE IF ~isDefined(id) THEN thrown("Entry requires an id")
     ELSE IF ~isDefined(seq) THEN thrown("Entry requires a sequence number")
     ELSE IF ~isDefined(data) THEN thrown("Entry requires data")
     ELSE IF next.kind \in {"null", "string"} THEN thrown("'next' argument is not an array")
     ELSE LET nexts == next.hashes
              hash == entryMultihash(stored, id[1], seq[1], data[1], nexts)
              entry == [hash |-> hash, id |-> id[1], seq |-> seq[1],
                        payload |-> data[1], next |-> nexts]
          IN [error |-> "", entry |-> <<entry>>, stored |-> stored \cup {entry}, put |-> TRUE]

\* Entry.hasChild(entry1, entry2)
hasChild(entry1, entry2) == entry2.hash \in Range(entry1.next)

\* -------------------------------------------------------------------- Log

\* new Log(ipfs, id, { items, heads })
NewLog(id, items, heads) == [id |-> id, items |-> items, heads |-> heads]

\* LogUtils.create(ipfs, id): no items, and _findHeads of no items
create(id) == NewLog(id, <<>>, <<>>)

ItemHashes(items) == [i \in 1..Len(items) |-> items[i].hash]

\* log.get(hash): the first item with that hash, or undefined
HasItem(log, hash) == \E i \in 1..Len(log.items) : log.items[i].hash = hash
get(log, hash) ==
  log.items[CHOOSE i \in 1..Len(log.items) :
              log.items[i].hash = hash /\ \A j \in 1..(i - 1) : log.items[j].hash # hash]

\* LogUtils.append: the log returned once Entry.create has resolved to entry
append(log, entry) == NewLog(log.id, log.items \o <<entry>>, <<entry.hash>>)

\* LogUtils._insert(ipfs, log, entry), on the items array of the log
InsertIndex(hashes, entry) ==
  IF Len(entry.next) > 0
  THEN Max(MaxOf([i \in 1..Len(entry.next) |-> IndexOf(hashes, entry.next[i])]) + 1, 0)
  ELSE 0

\* _insert without its test for an entry that is already in the log
InsertNoCheck(items, entry) == Splice(items, InsertIndex(ItemHashes(items), entry), entry)

Insert(items, entry) ==
  IF entry.hash \in Range(ItemHashes(items)) THEN items
  ELSE Splice(items, InsertIndex(ItemHashes(items), entry), entry)

RECURSIVE InsertAll(_, _)
\* newEntries.forEach((e) => LogUtils._insert(ipfs, result, e))
InsertAll(items, newEntries) ==
  IF newEntries = <<>> THEN items
  ELSE InsertAll(Insert(items, newEntries[1]), Tail(newEntries))

\* a._heads.map((e) => a.get(e)).filter((e) => e !== undefined)
HeadEntries(log) ==
  LET found == SelectSeq(log.heads, LAMBDA h : HasItem(log, h))
  IN [i \in 1..Len(found) |-> get(log, found[i])]

\* The heads of the first log alone
JoinHeadsOfFirst(headsA, headsB) == [i \in 1..Len(headsA) |-> headsA[i].hash]

\* headsA.concat(headsB).sort((a, b) => a.id > b.id).map((e) => e.hash)
JoinHeads(headsA, headsB) ==
  LET all == headsA \o headsB
      sorted == JsSort([i \in 1..Len(all) |-> [k |-> all[i].id, v |-> all[i].hash]])
  IN [i \in 1..Len(sorted) |-> sorted[i].v]

\* LogUtils.join(ipfs, a, b, size); size 0 stands for a size that is not given
join(a, b, size) ==
  LET sz == IF size # 0 THEN size ELSE Len(a.items) + Len(b.items)
      headsA == HeadEntries(a)
      headsB == HeadEntries(b)
      heads == JoinHeads(headsA, headsB)
      aa == IF headsA # <<>> THEN headsA[1].id ELSE Null
      bb == IF headsB # <<>> THEN headsB[1].id ELSE Null
      isFirst == JsGt(aa, bb)
      log1 == IF isFirst THEN a ELSE b
      log2 == IF isFirst THEN b ELSE a
      newEntries == take(Reverse(log2.items), sz)
      oldEntries == take(log1.items, sz)
  IN NewLog(log1.id, InsertAll(oldEntries, newEntries), heads)

\* ------------------------------------------------ arrays as the calls see them
\* append and join read the arrays of their input logs and build new ones.
\* A heap is the sequence of the arrays alive during one call, an array is
\* referred to by its index, and a log on the heap holds the references of its
\* _items and _heads.

HeapLog(id, items, heads) == [id |-> id, items |-> items, heads |-> heads]

\* The log a heap log stands for
Deref(heap, log) == NewLog(log.id, heap[log.items], heap[log.heads])

\* A new array on the heap
Alloc(heap, array) == [heap |-> heap \o <<array>>, ref |-> Len(heap) + 1]

\* array.slice() of the array itself: the mistake of working on the array of
\* the input
sliceSame(heap, ref) == [heap |-> heap, ref |-> ref]

\* array.slice(): a new array with the same elements
slice(heap, ref) == Alloc(heap, heap[ref])

\* array.reverse(), in place
reverseInPlace(heap, ref) == [heap EXCEPT ![ref] = Reverse(heap[ref])]

RECURSIVE insertAllInPlace(_, _, _)
\* newEntries.forEach((e) => LogUtils._insert(ipfs, result, e)): each _insert
\* splices result._items in place
insertAllInPlace(heap, ref, newEntries) ==
  IF newEntries = <<>> THEN heap
  ELSE insertAllInPlace([heap EXCEPT ![ref] = Insert(heap[ref], newEntries[1])],
                        ref, Tail(newEntries))

\* LogUtils.append on the heap, once Entry.create has resolved to entry
appendOnHeap(heap, log, entry) ==
  LET copy == slice(heap, log.items)
      items == Alloc(copy.heap, copy.heap[copy.ref] \o <<entry>>)
      heads == Alloc(items.heap, <<entry.hash>>)
  IN [heap |-> heads.heap, out |-> HeapLog(log.id, items.ref, heads.ref)]

\* LogUtils.join on the heap
joinOnHeap(heap, a, b, size) ==
  LET sz == IF size # 0 THEN size ELSE Len(heap[a.items]) + Len(heap[b.items])
      headsA == HeadEntries(Deref(heap, a))
      headsB == HeadEntries(Deref(heap, b))
      heads == Alloc(heap, JoinHeads(headsA, headsB))
      aa == IF headsA # <<>> THEN headsA[1].id ELSE Null
      bb == IF headsB # <<>> THEN headsB[1].id ELSE Null
      isFirst == JsGt(aa, bb)
      log1 == IF isFirst THEN a ELSE b
      log2 == IF isFirst THEN b ELSE a
      copy2 == slice(heads.heap, log2.items)
      reversed == reverseInPlace(copy2.heap, copy2.ref)
      newEntries == Alloc(reversed, take(reversed[copy2.ref], sz))
      copy1 == slice(newEntries.heap, log1.items)
      oldEntries == Alloc(copy1.heap, take(copy1.heap[copy1.ref], sz))
  IN [heap |-> insertAllInPlace(oldEntries.heap, oldEntries.ref,
                                oldEntries.heap[newEntries.ref]),
      out |-> HeapLog(log1.id, oldEntries.ref, heads.ref)]

\* The input log a of a call, on a heap that holds its two arrays
InputA == HeapLog(Null, 1, 2)
\* The input log b of a join, which is a itself when the same log is given
\* twice
InputB(same) == IF same THEN InputA ELSE HeapLog(Null, 3, 4)

\* Log.append(ipfs, a, data): the log returned and the input as it is then
appendCall(a, entry) ==
  LET done == appendOnHeap(<<a.items, a.heads>>, [InputA EXCEPT !.id = a.id], entry)
  IN [out |-> Deref(done.heap, done.out),
      a |-> Deref(done.heap, [InputA EXCEPT !.id = a.id])]

\* Log.join(ipfs, a, b, size): the log returned and the inputs as they are then
joinCall(a, b, same, size) ==
  LET heap == IF same THEN <<a.items, a.heads>>
              ELSE <<a.items, a.heads, b.items, b.heads>>
      la == [InputA EXCEPT !.id = a.id]
      lb == [InputB(same) EXCEPT !.id = b.id]
      done == joinOnHeap(heap, la, lb, size)
  IN [out |-> Deref(done.heap, done.out),
      a |-> Deref(done.heap, la),
      b |-> Deref(done.heap, lb)]

\* ------------------------------------------------- persisting and loading
\* Hashes are strings that the code sorts with (a, b) => a > b.  rank gives
\* the place of each hash in string order.

\* hashes.sort((a, b) => a > b)
sortByHash(hashes, rank) ==
  LET sorted == JsSort([i \in 1..Len(hashes) |-> [k |-> rank[hashes[i]], v |-> hashes[i]]])
  IN [i \in 1..Len(sorted) |-> sorted[i].v]

\* LogUtils._isReferencedInChain(log, entry)
isReferencedInChain(log, entry) == \E i \in 1..Len(log.items) : hasChild(log.items[i], entry)

\* LogUtils._findHeads(log)
findHeads(log, rank) ==
  LET unreferenced == SelectSeq(Reverse(log.items), LAMBDA f : ~isReferencedInChain(log, f))
  IN sortByHash(ItemHashes(unreferenced), rank)

\* LogUtils.create(ipfs, id, entries, heads) with both arrays given: the
\* constructor keeps heads that are given, an empty array included
createWith(id, entries, heads) == NewLog(id, entries, heads)

\* log.serialize(), as the JSON text put to the block store holds it
serialize(log) == [id |-> log.id, heads |-> log.heads]

\* The multihash ipfs.object.put answers for a block: that of the block with
\* the same content if there is one, or else a new one
PutBlock(stored, data) ==
  IF \E h \in 1..Len(stored) : stored[h] = data
  THEN [blocks |-> stored, hash |-> CHOOSE h \in 1..Len(stored) : stored[h] = data]
  ELSE [blocks |-> stored \o <<data>>, hash |-> Len(stored) + 1]

\* LogUtils.getIpfsHash(ipfs, log): throws for a log without items, and
\* else puts the serialized log
getIpfsHash(stored, log) ==
  IF Len(log.items) < 1
  THEN [threw |-> TRUE, put |-> FALSE, blocks |-> stored, hash |-> Null]
  ELSE [threw |-> FALSE, put |-> TRUE,
        blocks |-> PutBlock(stored, serialize(log)).blocks,
        hash |-> PutBlock(stored, serialize(log)).hash]

\* Entry.fromIpfsHash(ipfs, hash): the entry stored under hash
EntryFromHash(entries, hash) == CHOOSE e \in entries : e.hash = hash

\* ipfs.object.get(hash) answers: the block is among the entries at hand
Answers(entries, hash) == \E e \in entries : e.hash = hash

\* What a call of _fetchRecursive leaves behind: the entries it resolves
\* with, the map all, the calls of onProgressCallback it made, in order, and
\* whether its promise stays pending because a get never answered
Fetched(result, all, calls, pending) ==
  [result |-> result, all |-> all, calls |-> calls, pending |-> pending]

RECURSIVE fetchRecursive(_, _, _, _, _, _)
RECURSIVE fetchSeries(_, _, _, _, _, _)
\* _fetchRecursive without its test of the depth
fetchRecursiveUncapped(entries, hash, all, amount, depth, parent) ==
  IF hash \in all
  THEN Fetched(<<>>, all, <<>>, FALSE)
  ELSE IF ~Answers(entries, hash)
  THEN Fetched(<<>>, all, <<>>, TRUE)
  ELSE LET entry == EntryFromHash(entries, hash)
           rest == fetchSeries(entries, entry.next, all \cup {hash}, amount, depth + 1, hash)
       IN Fetched(rest.result \o <<entry>>, rest.all,
                  <<[hash |-> hash, parent |-> parent, depth |-> depth]>> \o rest.calls,
                  rest.pending)

\* _fetchRecursive that reports every entry with the depth it was called with
\* and hands that depth on
fetchRecursiveSameDepth(entries, hash, all, amount, depth, parent) ==
  IF hash \in all \/ (depth >= amount /\ amount > 0)
  THEN Fetched(<<>>, all, <<>>, FALSE)
  ELSE IF ~Answers(entries, hash)
  THEN Fetched(<<>>, all, <<>>, TRUE)
  ELSE LET entry == EntryFromHash(entries, hash)
           rest == fetchSeries(entries, entry.next, all \cup {hash}, amount, depth, hash)
       IN Fetched(rest.result \o <<entry>>, rest.all,
                  <<[hash |-> hash, parent |-> parent, depth |-> depth]>> \o rest.calls,
                  rest.pending)

\* _fetchRecursive that hands its own parent on to the entries it fetches next
\* instead of the entry it fetched
fetchRecursiveOldParent(entries, hash, all, amount, depth, parent) ==
  IF hash \in all \/ (depth >= amount /\ amount > 0)
  THEN Fetched(<<>>, all, <<>>, FALSE)
  ELSE IF ~Answers(entries, hash)
  THEN Fetched(<<>>, all, <<>>, TRUE)
  ELSE LET entry == EntryFromHash(entries, hash)
           rest == fetchSeries(entries, entry.next, all \cup {hash}, amount, depth + 1, parent)
       IN Fetched(rest.result \o <<entry>>, rest.all,
                  <<[hash |-> hash, parent |-> parent, depth |-> depth]>> \o rest.calls,
                  rest.pending)

\* LogUtils._fetchRecursive(ipfs, hash, all, amount, depth, parent,
\* onProgressCallback).  The map all is the set of its keys, the parent is
\* the hash of the parent entry, Null for none.  The get of a block that is
\* not at hand never answers: the code sets no timer, so the promise of the
\* call, and of every call waiting for it, stays pending.
fetchRecursive(entries, hash, all, amount, depth, parent) ==
  IF hash \in all \/ (depth >= amount /\ amount > 0)
  THEN Fetched(<<>>, all, <<>>, FALSE)
  ELSE IF ~Answers(entries, hash)
  THEN Fetched(<<>>, all, <<>>, TRUE)
  ELSE LET entry == EntryFromHash(entries, hash)
           rest == fetchSeries(entries, entry.next, all \cup {hash}, amount, depth + 1, hash)
       IN Fetched(rest.result \o <<entry>>, rest.all,
                  <<[hash |-> hash, parent |-> parent, depth |-> depth]>> \o rest.calls,
                  rest.pending)

\* Promise.mapSeries(entry.next, fetch), flattened: one call after the
\* other, the next one started when the one before has resolved
fetchSeries(entries, hashes, all, amount, depth, parent) ==
  IF hashes = <<>> THEN Fetched(<<>>, all, <<>>, FALSE)
  ELSE LET first == fetchRecursive(entries, hashes[1], all, amount, depth, parent)
           rest == fetchSeries(entries, Tail(hashes), first.all, amount, depth, parent)
       IN IF first.pending THEN first
          ELSE Fetched(first.result \o rest.result, rest.all,
                       first.calls \o rest.calls, rest.pending)

\* What fromEntry does with the array that _fetchRecursive resolved with
logOfFetched(id, items, rank) ==
  LET log == NewLog(id, InsertAll(<<>>, Reverse(items)), <<>>)
  IN NewLog(id, log.items, findHeads(log, rank))

\* LogUtils.fromEntry(ipfs, id, hash, length)
fromEntry(entries, id, hash, length, rank) ==
  logOfFetched(id, fetchRecursive(entries, hash, {}, length, 0, Null).result, rank)

RECURSIVE joinAllFrom(_, _)
\* logs.reduce((log, val) => { if (!log) return val; return LogUtils.join(ipfs, log, val) }, log)
joinAllFrom(log, rest) ==
  IF rest = <<>> THEN log
  ELSE joinAllFrom(IF log = create(Null) THEN rest[1] ELSE join(log, rest[1], 0), Tail(rest))

\* LogUtils.joinAll(ipfs, logs); the log without id stands for null
joinAll(logsToJoin) == joinAllFrom(create(Null), logsToJoin)

\* What _fetchRecursive returns to fromEntry for each head that fromIpfsHash
\* loads, in the order it loads them: the hash it starts from and its result
fetchedPerHead(entries, stored, hash, length, rank) ==
  LET heads == sortByHash(stored[hash].heads, rank)
  IN [i \in 1..Len(heads) |->
        [seed |-> heads[i],
         result |-> fetchRecursive(entries, heads[i], {}, length, 0, Null).result]]

\* fromIpfsHash loading from no more heads than length and returning the
\* log with the heads that were persisted
fromIpfsHashKeepHeads(entries, stored, hash, length, rank) ==
  LET logData == stored[hash]
      heads == sortByHash(logData.heads, rank)
      loaded == IF length >= 0 THEN take(heads, length) ELSE heads
      allLogs == [i \in 1..Len(loaded) |-> fromEntry(entries, logData.id, loaded[i], length, rank)]
      joined == IF allLogs = <<>> THEN create(logData.id) ELSE joinAll(allLogs)
  IN NewLog(joined.id, joined.items, logData.heads)

\* LogUtils.fromIpfsHash(ipfs, hash, length)
fromIpfsHash(entries, stored, hash, length, rank) ==
  LET logData == stored[hash]
      heads == sortByHash(logData.heads, rank)
      allLogs == [i \in 1..Len(heads) |-> fromEntry(entries, logData.id, heads[i], length, rank)]
  IN joinAll(allLogs)

\* The entry with its next array sorted in place by hash
withSortedNext(entry, rank) == [entry EXCEPT !.next = sortByHash(entry.next, rank)]

\* The log once expand has sorted the next array of its first item in place
afterExpand(log, rank) ==
  NewLog(log.id, [log.items EXCEPT ![1] = withSortedNext(log.items[1], rank)], log.heads)

\* LogUtils.expand(ipfs, log, length) on a log with items: the log it returns,
\* the log given as the call leaves it, and whether the promise stays pending
expand(entries, log, length, rank) ==
  LET a == afterExpand(log, rank)
      tails == a.items[1].next
      runs == [i \in 1..Len(tails) |-> fetchRecursive(entries, tails[i], {}, length, 0, Null)]
      getLog == [i \in 1..Len(tails) |-> logOfFetched(log.id, runs[i].result, rank)]
      pending == \E i \in 1..Len(tails) : runs[i].pending
  IN [a |-> a, pending |-> pending,
      out |-> IF pending THEN create(Null) ELSE joinAll(getLog \o <<a>>)]

\* ------------------------------------------------------- EntryCollection

\* array.sort((a, b) => a.field > b.field) with sign 1,
\* array.sort((a, b) => a.field < b.field) with sign -1
SortBy(s, field, sign) ==
  LET sorted == JsSort([i \in 1..Len(s) |-> [k |-> sign * s[i][field], v |-> s[i]]])
  IN [i \in 1..Len(sorted) |-> sorted[i].v]

\* The entry of the array with the given hash
EntryOf(entries, h) == entries[CHOOSE i \in 1..Len(entries) : entries[i].hash = h]

RECURSIVE getLatestSeqNumberFrom(_, _)
\* entries.reduce((res, entry) => { if (entry.seq > res) res = entry.seq; return res }, res)
\* entry.seq > res is false for an entry without seq
getLatestSeqNumberFrom(res, entries) ==
  IF entries = <<>> THEN res
  ELSE getLatestSeqNumberFrom(
         IF "seq" \in DOMAIN entries[1] /\ entries[1].seq > res THEN entries[1].seq ELSE res,
         Tail(entries))

\* EntryCollection.getLatestSeqNumber(entries)
getLatestSeqNumber(entries) == getLatestSeqNumberFrom(-1, entries)

RECURSIVE PushUnique(_, _)
\* entries.forEach(e => { if (res.findIndex(a => a.hash === e.hash) === -1) res.push(e) })
PushUnique(res, es) ==
  IF es = <<>> THEN res
  ELSE PushUnique(IF \E i \in 1..Len(res) : res[i].hash = es[1].hash THEN res ELSE res \o <<es[1]>>,
                  Tail(es))

RECURSIVE Flatten(_)
Flatten(ss) == IF ss = <<>> THEN <<>> ELSE ss[1] \o Flatten(Tail(ss))

\* reverseIndex[a]: the entries with a in their next, once per occurrence
ReverseIndex(entries, a) ==
  Flatten([i \in 1..Len(entries) |->
             [j \in 1..Len(SelectSeq(entries[i].next, LAMBDA n : n = a)) |-> entries[i]]])

\* EntryCollection.findTails(entries)
findTails(entries) ==
  LET hashes == {entries[i].hash : i \in 1..Len(entries)}
      nexts == Flatten([i \in 1..Len(entries) |-> entries[i].next])
      missing == SelectSeq(nexts, LAMBDA n : n \notin hashes)
      pointing == Flatten([i \in 1..Len(missing) |-> ReverseIndex(entries, missing[i])])
  IN PushUnique(<<>>, pointing) \o SelectSeq(entries, LAMBDA e : Len(e.next) = 0)

\* EntryCollection.findHeads(entries): the entries no entry of the array has
\* in its next, then .sort((a, b) => a.id > b.id)
findHeadEntries(entries) ==
  LET referenced == UNION {Range(entries[i].next) : i \in 1..Len(entries)}
  IN SortBy(SelectSeq(entries, LAMBDA f : f.hash \notin referenced), "id", 1)

\* Entry.findSiblings(entry, entries): the entries that have entry in their next
findSiblings(entry, entries) ==
  LET siblings == SelectSeq(entries, LAMBDA e : hasChild(e, entry))
  IN SortBy(SortBy(siblings, "id", -1), "seq", -1)

\* The index of sort: h holds the hashes that map to their entry, s the
\* triples <<id, seq, hash>> of index[id][seq] = hash
addToIndex(index, entry) ==
  [h |-> index.h \cup {entry.hash},
   s |-> {t \in index.s : ~(t[1] = entry.id /\ t[2] = entry.seq)}
           \cup {<<entry.id, entry.seq, entry.hash>>}]

\* removeFromIndex without its delete index[entry.hash]
removeFromIndexSeqOnly(index, entry) ==
  [h |-> index.h,
   s |-> {t \in index.s : ~(t[1] = entry.id /\ t[2] = entry.seq)}]

removeFromIndex(index, entry) ==
  [h |-> index.h \ {entry.hash},
   s |-> {t \in index.s : ~(t[1] = entry.id /\ t[2] = entry.seq)}]

RECURSIVE addAllToIndex(_, _)
addAllToIndex(index, es) ==
  IF es = <<>> THEN index ELSE addAllToIndex(addToIndex(index, es[1]), Tail(es))

\* Object.keys(index[id]).sort((a, b) => a > b)
SeqKeys(index, id) ==
  LET keys == {t[2] : t \in {u \in index.s : u[1] = id}}
  IN CHOOSE s \in [1..Cardinality(keys) -> keys] : \A i, j \in 1..Cardinality(keys) : i < j => s[i] < s[j]

\* array.findIndex(P), 0-based, -1 when no element satisfies P; found[i]
\* tells whether the i-th element satisfies P
FindIndex(found) ==
  IF \E i \in 1..Len(found) : found[i]
  THEN (CHOOSE i \in 1..Len(found) : found[i] /\ \A j \in 1..(i - 1) : ~found[j]) - 1
  ELSE -1

hasOlderSiblingInQueue(index, entry) ==
  LET keys == SeqKeys(index, entry.id)
  IN FindIndex([i \in 1..Len(keys) |-> entry.seq > keys[i]])

\* hasParentsInQueue answering that no parent is in the index
hasParentsInQueueNever(index, entry) == -1

hasParentsInQueue(index, entry) ==
  FindIndex([i \in 1..Len(entry.next) |-> entry.next[i] \in index.h])

\* processEntry of sort: e.id2 = e.id, written to the entry of the input
\* array.  id2 is always the id of the entry, which is what the index reads.
processEntry(e) == [f \in DOMAIN e \cup {"id2"} |-> IF f = "id2" THEN e.id ELSE e[f]]

\* The state of sort when it enters its loop; entries is the input array as
\* entries.forEach(processEntry) has left it
sortInit(entries) ==
  LET index == addAllToIndex([h |-> {}, s |-> {}], entries)
      tails == SortBy(SortBy(findTails(entries), "id", 1), "seq", 1)
  IN [queue |-> tails, result |-> <<>>, cache |-> {}, index |-> index,
      entries |-> [i \in 1..Len(entries) |-> processEntry(entries[i])]]

\* One iteration of the loop of sort, entered with a non-empty queue
sortStep(entries, st) ==
  LET entry == Head(st.queue)
      queue == Tail(st.queue)
  IN IF entry.hash \in st.cache THEN [st EXCEPT !.queue = queue]
     ELSE IF hasParentsInQueue(st.index, entry) # -1 THEN
       LET abc == [i \in 1..Len(SelectSeq(entry.next, LAMBDA e : e \in st.index.h)) |->
                     EntryOf(entries, SelectSeq(entry.next, LAMBDA e : e \in st.index.h)[i])]
           parentIdx == MaxOf([i \in 1..Len(abc) |->
                                 FindIndex([j \in 1..Len(queue) |-> abc[i].hash = queue[j].hash])]
                             \o <<-1>>)
       IN IF parentIdx > -1
          THEN [st EXCEPT !.queue = Splice(queue, parentIdx + 1, entry),
                          !.index = addToIndex(st.index, entry)]
          ELSE [st EXCEPT !.queue = queue \o abc,
                          !.index = addAllToIndex(st.index, abc)]
     ELSE IF hasOlderSiblingInQueue(st.index, entry) # -1 THEN
       [st EXCEPT !.queue = queue \o <<entry>>,
                  !.index = addToIndex(st.index, entry)]
     ELSE
       LET siblings == SortBy(findSiblings(entry, entries), "id", -1)
       IN [st EXCEPT !.queue = queue \o siblings,
                     !.result = st.result \o <<entry>>,
                     !.cache = st.cache \cup {entry.hash},
                     !.index = addAllToIndex(removeFromIndex(st.index, entry), siblings)]

RECURSIVE sortRun(_, _, _)
\* The loop of sort, run until the queue is empty or for fuel iterations
sortRun(entries, st, fuel) ==
  IF st.queue = <<>> \/ fuel = 0 THEN st
  ELSE sortRun(entries, sortStep(entries, st), fuel - 1)

\* EntryCollection.sort(entries), as far as MaxSortSteps iterations take it
sort(entries) == sortRun(entries, sortInit(entries), MaxSortSteps)

\* ------------------------------------------------------------------ state

VARIABLES
  logs,    \* the log each replica holds
  store,   \* the entries put to the block store
  last,    \* the last operation: its inputs and the log it returned
  nops,    \* the number of operations run so far
  input,   \* the array EntryCollection.sort was called with
  srt,     \* the call of sort: its queue, result, cache and index, and where it is
  blocks,  \* the serialized logs put to the block store, by multihash
  persist, \* the last call of toMultihash or fromMultihash
  fetch    \* the last call of _fetchRecursive, fromEntry or expand

vars == <<logs, store, last, nops, input, srt, blocks, persist, fetch>>
logVars == <<logs, store, last, nops>>
sortVars == <<input, srt>>
persistVars == <<blocks, persist, fetch>>

NoLog == create(Null)

\* Nothing persisted or loaded yet.  log is the log last given to
\* toMultihash, hash the multihash it answered, threw whether it threw, put
\* whether it called ipfs.object.put; length is the length given to
\* fromMultihash, out its result and fetched what _fetchRecursive returned
\* for each head.
NoPersist ==
  [op |-> "none", log |-> NoLog, hash |-> Null, threw |-> FALSE, put |-> FALSE,
   length |-> -1, out |-> NoLog, fetched |-> <<>>]

\* Nothing fetched yet.  op is the call, seed the hash it starts from, all
\* the hashes given as the map all, length the amount or length, lost the
\* hashes whose blocks no get answers for, a the log given to expand; calls
\* are the calls of onProgressCallback in order, pending whether the promise
\* of the call stays pending, result what _fetchRecursive resolved with and
\* out the log the call returned, when it returned; before and
\* beforeLength are the call that returned the log given to expand and its
\* length, expands the number of calls of expand so far.
NoFetch ==
  [op |-> "none", seed |-> Null, all |-> {}, length |-> -1, lost |-> {}, a |-> NoLog,
   calls |-> <<>>, pending |-> FALSE, result |-> <<>>, out |-> NoLog,
   before |-> "none", beforeLength |-> -1, expands |-> 0]

\* No call yet. a and b are the input logs of the last call, a2 and b2 the
\* same logs as they are once the call has returned.
NoCall ==
  [op |-> "create", a |-> NoLog, b |-> NoLog, data |-> 0, out |-> NoLog,
   a2 |-> NoLog, b2 |-> NoLog]

Init ==
  /\ \E ids \in [Replicas -> Ids] : logs = [r \in Replicas |-> create(ids[r])]
  /\ store = {}
  /\ last = NoCall
  /\ nops = 0
  /\ input = <<>>
  /\ srt = [pc |-> "idle", steps |-> 0, st |-> sortInit(<<>>)]
  /\ blocks = <<>>
  /\ persist = NoPersist
  /\ fetch = NoFetch

\* The hash ipfs.object.put answers for an entry: the hash of the stored block
\* with the same content, or else a hash not in use.  Hashes are only compared
\* for equality by the operations modelled, so the unused hash is the next one.
PutHashes(id, data, next) ==
  LET same == {e \in store : e.id = id /\ e.payload = data /\ e.next = next}
      used == {e.hash : e \in store}
  IN IF same # {} THEN {e.hash : e \in same}
     ELSE {h \in Hashes : h = Cardinality(used) + 1}

\* log = await Log.append(ipfs, log, data)
AppendOp(r, data) ==
  \E hash \in PutHashes(logs[r].id, data, logs[r].heads) :
    LET entry == EntryCreate(logs[r].id, data, logs[r].heads, hash)
        call == appendCall(logs[r], entry)
    IN /\ nops < MaxOps
       /\ nops' = nops + 1
       /\ store' = store \cup {entry}
       /\ logs' = [logs EXCEPT ![r] = call.out]
       /\ last' = [op |-> "append", a |-> logs[r], b |-> NoLog, data |-> data,
                   out |-> call.out, a2 |-> call.a, b2 |-> NoLog]
       /\ UNCHANGED <<sortVars, persistVars>>

\* log = Log.join(ipfs, log, other)
JoinOp(r, s) ==
  LET call == joinCall(logs[r], logs[s], r = s, 0)
  IN /\ nops < MaxOps
     /\ nops' = nops + 1
     /\ Len(call.out.heads) <= MaxHeads
     /\ logs' = [[logs EXCEPT ![s] = call.b] EXCEPT ![r] = call.out]
     /\ last' = [op |-> "join", a |-> logs[r], b |-> logs[s], data |-> 0,
                 out |-> call.out, a2 |-> call.a, b2 |-> call.b]
     /\ UNCHANGED <<store, sortVars, persistVars>>

Next ==
  \/ \E r \in Replicas, data \in Payloads : AppendOp(r, data)
  \/ \E r, s \in Replicas : JoinOp(r, s)

Spec == Init /\ [][Next]_vars

\* ------------------------------------------- persisting and loading the logs

\* The replicas that persist and load their logs
PersistReplicas == 1..NumPersistReplicas

\* The string orders of the hashes of the entries in the store: any order of
\* these, ahead of the hashes not in use
StringOrders ==
  LET used == {e.hash : e \in store}
  IN {[h \in Hashes |-> IF h \in used THEN p[h] ELSE h] : p \in Permutations(used)}

\* The length given to fromMultihash: -1 (the default) and 0 for everything
Lengths == -1..MaxLength

\* log = Log.create(log.id, log.items, []): the log with no heads given
CreateOp(r) ==
  /\ nops < MaxPersistOps
  /\ nops' = nops + 1
  /\ logs[r].heads # <<>>
  /\ logs' = [logs EXCEPT ![r] = createWith(logs[r].id, logs[r].items, <<>>)]
  /\ last' = [NoCall EXCEPT !.a = logs[r], !.a2 = logs[r], !.out = logs'[r]]
  /\ UNCHANGED <<store, sortVars, persistVars>>

\* hash = await Log.toMultihash(ipfs, log)
ToMultihashOp(r) ==
  LET done == getIpfsHash(blocks, logs[r])
  IN /\ Len(done.blocks) <= MaxBlocks
     /\ blocks' = done.blocks
     /\ persist' = [NoPersist EXCEPT !.op = "toMultihash", !.log = logs[r], !.hash = done.hash,
                                  !.threw = done.threw, !.put = done.put]
     /\ UNCHANGED <<logVars, sortVars, fetch>>

\* res = await Log.fromMultihash(ipfs, hash, length), of the hash that
\* toMultihash answered last, with the hashes in the string order rank
FromMultihashOp(length, rank) ==
  /\ persist.hash # Null
  /\ persist' = [persist EXCEPT !.op = "fromMultihash", !.length = length,
                          !.out = fromIpfsHash(store, blocks, persist.hash, length, rank),
                          !.fetched = fetchedPerHead(store, blocks, persist.hash, length, rank)]
  /\ UNCHANGED <<logVars, sortVars, blocks, fetch>>

NextPersist ==
  \/ \E r \in PersistReplicas, data \in Payloads : nops < MaxPersistOps /\ AppendOp(r, data)
  \/ \E r, s \in PersistReplicas : nops < MaxPersistOps /\ JoinOp(r, s)
  \/ \E r \in PersistReplicas : CreateOp(r)
  \/ \E r \in PersistReplicas : ToMultihashOp(r)
  \/ \E length \in Lengths, rank \in StringOrders : FromMultihashOp(length, rank)

\* The replicas that neither persist nor load keep an empty log
InitPersist == Init /\ \A r \in Replicas \ PersistReplicas : logs[r].id = 1

PersistSpec == InitPersist /\ [][NextPersist]_vars

\* ----------------------------------------------------- fetching entries

FetchPayloads == 1..NumFetchPayloads

\* The string orders of the hashes tried: the order of creation and its reverse
FetchOrders == {[h \in Hashes |-> h], [h \in Hashes |-> MaxEntries + 1 - h]}

\* The blocks at hand when the gets of the hashes lost never answer
Available(lost) == {e \in store : e.hash \notin lost}

\* At most one block is out of reach
LostSets(log) == {{}} \cup {{h} : h \in Range(ItemHashes(log.items))}

\* The maps all given to _fetchRecursive: empty, one entry of the log, or
\* all of them
AllSets(log) ==
  {{}} \cup {{h} : h \in Range(ItemHashes(log.items))} \cup {Range(ItemHashes(log.items))}

\* An append or a join of the replicas, before anything is fetched
LogOp(maxOps) ==
  /\ nops < maxOps
  /\ fetch.op = "none"
  /\ \/ \E r \in PersistReplicas, data \in FetchPayloads : AppendOp(r, data)
     \/ \E r, s \in PersistReplicas : JoinOp(r, s)

\* LogUtils._fetchRecursive(ipfs, hash, all, amount, 0, null, onProgress),
\* from a head of the log of replica r
FetchOp(r, hash, all, amount, lost) ==
  LET run == fetchRecursive(Available(lost), hash, all, amount, 0, Null)
  IN /\ fetch' = [NoFetch EXCEPT !.op = "fetch", !.seed = hash, !.all = all,
                                 !.length = amount, !.lost = lost, !.a = logs[r],
                                 !.calls = run.calls, !.pending = run.pending,
                                 !.result = IF run.pending THEN <<>> ELSE run.result]
     /\ UNCHANGED <<logVars, sortVars, blocks, persist>>

\* log = await Log.fromEntry(ipfs, id, hash, length, onProgress), from a
\* head of the log of replica r
FromEntryOp(r, hash, length, lost, rank) ==
  LET run == fetchRecursive(Available(lost), hash, {}, length, 0, Null)
  IN /\ fetch' = [NoFetch EXCEPT !.op = "fromEntry", !.seed = hash, !.length = length,
                                 !.lost = lost, !.a = logs[r],
                                 !.calls = run.calls, !.pending = run.pending,
                                 !.result = IF run.pending THEN <<>> ELSE run.result,
                                 !.out = IF run.pending THEN NoLog
                                         ELSE logOfFetched(logs[r].id, run.result, rank)]
     /\ UNCHANGED <<logVars, sortVars, blocks, persist>>

NextFetch ==
  \/ LogOp(MaxFetchOps)
  \/ \E r \in PersistReplicas :
       \E hash \in Range(logs[r].heads), lost \in LostSets(logs[r]) :
         \/ \E all \in AllSets(logs[r]), amount \in Lengths :
              /\ fetch.op = "none"
              /\ all = {} \/ (lost = {} /\ amount = -1)
              /\ FetchOp(r, hash, all, amount, lost)
         \/ \E length \in Lengths, rank \in FetchOrders :
              /\ fetch.op = "none"
              /\ FromEntryOp(r, hash, length, lost, rank)

FetchSpec == InitPersist /\ [][NextFetch]_vars

\* ------------------------------------------------------ expanding a log

\* log = await Log.expand(ipfs, log, length), of the log that fromEntry or
\* expand returned last
ExpandOp(length, rank) ==
  LET call == expand(store, fetch.out, length, rank)
  IN /\ fetch.op \in {"fromEntry", "expand"}
     /\ ~fetch.pending
     /\ fetch.out.items # <<>>
     /\ fetch.expands < MaxExpands
     /\ Len(call.out.heads) <= MaxHeads
     /\ fetch' = [NoFetch EXCEPT !.op = "expand", !.length = length, !.a = call.a,
                                 !.pending = call.pending, !.out = call.out,
                                 !.before = fetch.op, !.beforeLength = fetch.length,
                                 !.expands = fetch.expands + 1]
     /\ UNCHANGED <<logVars, sortVars, blocks, persist>>

NextExpand ==
  \/ LogOp(MaxExpandOps)
  \/ \E r \in PersistReplicas :
       \E hash \in Range(logs[r].heads), length \in Lengths, rank \in FetchOrders :
         /\ fetch.op = "none"
         /\ FromEntryOp(r, hash, length, {}, rank)
  \/ \E length \in Lengths, rank \in FetchOrders : ExpandOp(length, rank)

ExpandSpec == InitPersist /\ [][NextExpand]_vars

\* ------------------------------------------------- joining with a size

Sizes == 1..MaxSize

\* log = Log.join(ipfs, log, other, size); last.data holds the size
CappedJoinOp(r, s, size) ==
  LET call == joinCall(logs[r], logs[s], r = s, size)
  IN /\ nops < MaxOps
     /\ nops' = nops + 1
     /\ Len(call.out.heads) <= MaxHeads
     /\ logs' = [[logs EXCEPT ![s] = call.b] EXCEPT ![r] = call.out]
     /\ last' = [op |-> "joinSize", a |-> logs[r], b |-> logs[s], data |-> size,
                 out |-> call.out, a2 |-> call.a, b2 |-> call.b]
     /\ UNCHANGED <<store, sortVars, persistVars>>

NextCap ==
  \/ \E r \in PersistReplicas, data \in Payloads : AppendOp(r, data)
  \/ \E r, s \in PersistReplicas, size \in Sizes : CappedJoinOp(r, s, size)

CapSpec == InitPersist /\ [][NextCap]_vars

\* ------------------------------------------------------ creating entries

\* The ids given to Entry.create: no id, the empty string and two names
IdArgs == {<<>>, <<"">>, <<"A">>, <<"B">>}
SeqArgs == {<<>>} \cup {<<s>> : s \in 0..MaxSeq}
DataArgs == {<<>>} \cup {<<d>> : d \in Payloads}

\* The next arguments: none, null, a string, and the arrays of at most one
\* hash of a stored entry
NextArgs ==
  {NextArg(k, <<>>) : k \in {"omitted", "null", "string", "array"}}
    \cup {NextArg("array", <<e.hash>>) : e \in store}

\* entry = await Entry.create(ipfs, id, seq, data, next); last holds the
\* arguments and what the call did, store the block store
EntryCreateOp(ipfs, id, seq, data, next) ==
  LET call == createEntry(store, ipfs, id, seq, data, next)
  IN /\ nops < MaxEntryOps
     /\ nops' = nops + 1
     /\ store' = call.stored
     /\ last' = [op |-> "Entry.create", ipfs |-> ipfs, id |-> id, seq |-> seq, data |-> data,
                 next |-> next, error |-> call.error, entry |-> call.entry,
                 put |-> call.put, before |-> store]
     /\ UNCHANGED <<logs, sortVars, persistVars>>

NextEntry ==
  \E ipfs \in BOOLEAN, id \in IdArgs, seq \in SeqArgs, data \in DataArgs, next \in NextArgs :
    EntryCreateOp(ipfs, id, seq, data, next)

EntrySpec == Init /\ [][NextEntry]_vars

\* ------------------------------------------------------- running the sort

SortHashes == 1..MaxSortEntries
\* a digest that is the hash of no entry of the input
Outside == MaxSortEntries + 1

RECURSIVE NextsOver(_, _)
\* The next arrays of at most m distinct digests of S
NextsOver(S, m) ==
  IF m = 0 THEN {<<>>}
  ELSE LET shorter == NextsOver(S, m - 1)
       IN shorter \cup {s \o <<x>> : s \in shorter, x \in S}

\* The entries with hash k: any id and seq, and a next of digests of entries
\* with a smaller hash or outside the input, which makes the set acyclic
EntryChoices(k) ==
  {[hash |-> k, id |-> i, seq |-> s, next |-> nx] :
     i \in Ids, s \in 0..MaxSeq,
     nx \in {n \in NextsOver((1..(k - 1)) \cup {Outside}, MaxNext) :
              \A a, b \in 1..Len(n) : n[a] = n[b] => a = b}}

RECURSIVE EntryArrays(_)
EntryArrays(n) ==
  IF n = 0 THEN {<<>>}
  ELSE {a \o <<e>> : a \in EntryArrays(n - 1), e \in EntryChoices(n)}

Permute(a, p) == [i \in 1..Len(a) |-> a[p[i]]]

InitSort ==
  /\ logs = [r \in Replicas |-> NoLog]
  /\ store = {}
  /\ last = NoCall
  /\ nops = 0
  /\ \E n \in 0..MaxSortEntries : \E a \in EntryArrays(n) : \E p \in Permutations(1..n) :
       input = Permute(a, p)
  /\ srt = [pc |-> "loop", steps |-> 0, st |-> sortInit(input)]
  /\ blocks = <<>>
  /\ persist = NoPersist
  /\ fetch = NoFetch

\* while (queue.length > 0) { ... }: one iteration
SortLoop ==
  /\ srt.pc = "loop"
  /\ srt.st.queue # <<>>
  /\ srt.steps < MaxSortSteps
  /\ srt' = [srt EXCEPT !.st = sortStep(input, srt.st), !.steps = srt.steps + 1]
  /\ UNCHANGED <<input, logVars, persistVars>>

\* return result
SortReturn ==
  /\ srt.pc = "loop"
  /\ srt.st.queue = <<>>
  /\ srt' = [srt EXCEPT !.pc = "done"]
  /\ UNCHANGED <<input, logVars, persistVars>>

NextSort == SortLoop \/ SortReturn

SortSpec == InitSort /\ [][NextSort]_vars

\* ------------------------------------------------------- claims on the log

RECURSIVE ReachableFrom(_, _)
\* The hashes of the stored entries reached from the hashes S by following next
ReachableFrom(entries, S) ==
  LET T == S \cup UNION {Range(e.next) : e \in {x \in entries : x.hash \in S}}
  IN IF T = S THEN S ELSE ReachableFrom(entries, T)

HashSet(log) == Range(ItemHashes(log.items))
HeadSet(log) == Range(log.heads)

\* C1: join is commutative: for any two logs a and b built by append and
\* join, join(a, b) and join(b, a) have the same items in the same order,
\* compared as sequences of entry hashes.
C1_JoinCommutative ==
  \A r, s \in Replicas :
    ItemHashes(join(logs[r], logs[s], 0).items) = ItemHashes(join(logs[s], logs[r], 0).items)

\* C2: join is associative: for any three logs a, b, c built by append and
\* join, join(a, join(b, c)) and join(join(a, b), c) have identical items.
C2_JoinAssociative ==
  \A r, s, u \in Replicas :
    ItemHashes(join(logs[r], join(logs[s], logs[u], 0), 0).items)
      = ItemHashes(join(join(logs[r], logs[s], 0), logs[u], 0).items)

\* C3: join is idempotent: join(a, a) has the same items in the same order
\* as a and the same heads as a.
C3_JoinIdempotent ==
  \A r \in Replicas :
    /\ join(logs[r], logs[r], 0).items = logs[r].items
    /\ join(logs[r], logs[r], 0).heads = logs[r].heads

\* C4: convergence: two replicas whose logs contain the same set of entry
\* hashes have identical items sequences and identical heads.
C4_Convergence ==
  \A r, s \in Replicas :
    HashSet(logs[r]) = HashSet(logs[s])
      => logs[r].items = logs[s].items /\ logs[r].heads = logs[s].heads

\* The hashes of the items of a log that no item of the log has in its next
Unreferenced(log) ==
  {e.hash : e \in {x \in Range(log.items) : \A f \in Range(log.items) : ~hasChild(f, x)}}

\* C7: head correctness: in every log reachable by append and uncapped join,
\* heads is exactly the set of hashes of items that do not occur in the next
\* of any item of the same log.
C7_HeadCorrectness == \A r \in Replicas : HeadSet(logs[r]) = Unreferenced(logs[r])

NoDuplicates(s) == \A i, j \in 1..Len(s) : s[i] = s[j] => i = j

\* C8: uncapped join is exactly the deduplicated union: the hashes of
\* join(a, b).items are the union of the hashes of a.items and b.items, and
\* no hash occurs twice in the result.
C8_JoinIsUnion ==
  \A r, s \in Replicas :
    LET out == join(logs[r], logs[s], 0)
    IN /\ HashSet(out) = HashSet(logs[r]) \cup HashSet(logs[s])
       /\ NoDuplicates(ItemHashes(out.items))

\* A join has just run on two logs that share an entry and hold one entry
\* each that the other lacks
C8_Witness ==
  /\ last.op = "join"
  /\ last.out = join(last.a, last.b, 0)
  /\ HashSet(last.a) \cap HashSet(last.b) # {}
  /\ HashSet(last.a) \ HashSet(last.b) # {}
  /\ HashSet(last.b) \ HashSet(last.a) # {}

\* a.seq === b.seq, for entries that may lack the field
SameSeq(a, b) ==
  IF "seq" \in DOMAIN a /\ "seq" \in DOMAIN b THEN a.seq = b.seq
  ELSE ("seq" \in DOMAIN a) = ("seq" \in DOMAIN b)

\* C9: in every log reachable by create, append and join, no two distinct
\* items have both the same id and the same seq.
C9_UniqueIdSeq ==
  \A r \in Replicas : \A i, j \in 1..Len(logs[r].items) :
    (i # j) => ~(logs[r].items[i].id = logs[r].items[j].id
                   /\ SameSeq(logs[r].items[i], logs[r].items[j]))

\* C10: append returns a log whose items are log.items in their order
\* followed by one new entry e with e.id = log.id, e.seq one more than the
\* latest seq of log.items (0 for an empty log), e.payload = payload and
\* e.next = log.heads, and whose heads is exactly [e.hash].
C10_AppendResult ==
  last.op = "append" =>
    LET n == Len(last.out.items)
        e == last.out.items[n]
    IN /\ n = Len(last.a.items) + 1
       /\ SubSeq(last.out.items, 1, n - 1) = last.a.items
       /\ e.id = last.a.id
       /\ "seq" \in DOMAIN e
       /\ e.seq = getLatestSeqNumber(last.a.items) + 1
       /\ e.payload = last.data
       /\ e.next = last.a.heads
       /\ last.out.heads = <<e.hash>>

\* C11: within one chain seq counts appends without gaps: the first entry
\* appended with a given id has seq 0, and every later append that creates
\* an entry with that id gives it the seq of the previous entry of that id
\* plus one, also when the log has been joined with other chains in between.
C11_SeqCountsAppends ==
  last.op = "append" =>
    LET e == last.out.items[Len(last.out.items)]
        chain == SelectSeq(last.a.items, LAMBDA x : x.id = e.id)
    IN /\ "seq" \in DOMAIN e
       /\ e.seq = IF chain = <<>> THEN 0 ELSE chain[Len(chain)].seq + 1

\* C12: append and join never modify their input logs: once the call has
\* returned, the items and the heads of every input log are what they were
\* before the call.
C12_InputsUntouched ==
  /\ last.op \in {"append", "join"} => last.a2 = last.a /\ last.b2 = last.b
  /\ last.op = "append" => last.out = append(last.a, last.out.items[Len(last.out.items)])
  /\ last.op = "join" => last.out = join(last.a, last.b, 0)

\* A join has just returned whose inputs are two different logs of two or
\* more items each, and whose result has more items than either
C12_Witness ==
  /\ last.op = "join"
  /\ last.a # last.b
  /\ Len(last.a.items) > 1
  /\ Len(last.b.items) > 1
  /\ Len(last.out.items) > Len(last.a.items)
  /\ Len(last.out.items) > Len(last.b.items)

\* ----------------------------------------------- claims on joining chains

\* The log is one chain of its own entries, built by appends only
OwnChain(log) ==
  /\ Len(log.items) > 0
  /\ \A i \in 1..Len(log.items) :
       /\ log.items[i].id = log.id
       /\ log.items[i].next = IF i = 1 THEN <<>> ELSE <<log.items[i - 1].hash>>
  /\ log.heads = <<log.items[Len(log.items)].hash>>

\* The chains lo and hi of m entries each, interleaved: lo1, hi1, lo2, hi2, ...
Interleaved(lo, hi) ==
  [i \in 1..(2 * Len(lo)) |-> IF i % 2 = 1 THEN lo[(i + 1) \div 2] ELSE hi[i \div 2]]

\* join has acted on two chains of distinct ids with m entries each
JoinedChains ==
  /\ last.op = "join"
  /\ OwnChain(last.a)
  /\ OwnChain(last.b)
  /\ last.a.id # last.b.id
  /\ Len(last.a.items) = Len(last.b.items)

\* C16: joining independent chains interleaves them: for logs with pairwise
\* distinct ids, each built by m appends and no joins, the join of them has
\* its items ordered first by position in the chain and then by ascending id
\* (A1, B1, A2, B2, ...), and its heads are exactly one hash per chain, that
\* of the chain's last entry.
C16_JoinInterleavesChains ==
  JoinedChains =>
    LET lo == IF last.a.id < last.b.id THEN last.a ELSE last.b
        hi == IF last.a.id < last.b.id THEN last.b ELSE last.a
    IN /\ last.out.items = Interleaved(lo.items, hi.items)
       /\ Len(last.out.heads) = 2
       /\ Range(last.out.heads) = {lo.heads[1], hi.heads[1]}

\* join with a size has acted, and the size is less than the union
CappedJoin ==
  /\ last.op = "joinSize"
  /\ last.data > 0
  /\ last.data < Cardinality(HashSet(last.a) \cup HashSet(last.b))

\* C17: a join with a size keeps the newest suffix: for any logs a, b and
\* any size with 0 < size < |a.items \cup b.items|, join(a, b, size) has
\* exactly size items, and they are the last size entries of the join of
\* all the entries of a and b, in that order.
C17_CappedJoinKeepsSuffix ==
  CappedJoin =>
    LET full == join(last.a, last.b, 0).items
    IN /\ Len(last.out.items) = last.data
       /\ last.out.items = SubSeq(full, Len(full) - last.data + 1, Len(full))

\* C33: after a join whose size cap drops entries, heads is recomputed over
\* the kept entries: every digest in heads is the hash of a kept item and no
\* kept item has the hash of a head in its next, also when size is smaller
\* than the number of heads of the uncapped union.
C33_CappedJoinHeadsAreKept ==
  CappedJoin =>
    /\ HeadSet(last.out) \subseteq HashSet(last.out)
    /\ \A i \in 1..Len(last.out.items) :
         Range(last.out.items[i].next) \cap HeadSet(last.out) = {}

\* C34: with the same size cap s >= 1 applied to every join, join stays
\* associative: for any logs a, b, c, join(a, join(b, c, s), s) and
\* join(join(a, b, s), c, s) have identical items.
C34_CappedJoinAssociative ==
  \A r, s, u \in PersistReplicas : \A size \in Sizes :
    ItemHashes(join(logs[r], join(logs[s], logs[u], size), size).items)
      = ItemHashes(join(join(logs[r], logs[s], size), logs[u], size).items)

\* The log with its last item taken off, as it was before that append
BeforeAppend(log) ==
  NewLog(log.id, SubSeq(log.items, 1, Len(log.items) - 1), log.items[Len(log.items)].next)

\* The log is the result of an append on some log: its newest item is its
\* only head, and is not among the items before it
IsAppended(log) ==
  /\ Len(log.items) > 0
  /\ log.heads = <<log.items[Len(log.items)].hash>>
  /\ log.items[Len(log.items)].hash \notin HashSet(BeforeAppend(log))
  /\ log.items[Len(log.items)].id = log.id

\* join has acted on two logs that are appends of different entries to
\* copies of the same log
JoinedDivergent ==
  /\ last.op = "join"
  /\ IsAppended(last.a)
  /\ IsAppended(last.b)
  /\ BeforeAppend(last.a) = BeforeAppend(last.b)
  /\ last.a.heads # last.b.heads

\* C18: two appends applied to copies of the same log L give logs L1 and L2
\* that each hold L's items and only their own new entry; join(L1, L2) then
\* holds all of L's items and both new entries, and has exactly two heads,
\* the two new entries.
C18_JoinOfDivergentAppends ==
  JoinedDivergent =>
    LET L == BeforeAppend(last.a)
        e1 == last.a.heads[1]
        e2 == last.b.heads[1]
    IN /\ e2 \notin HashSet(last.a)
       /\ e1 \notin HashSet(last.b)
       /\ HashSet(last.out) = HashSet(L) \cup {e1, e2}
       /\ NoDuplicates(ItemHashes(last.out.items))
       /\ Len(last.out.heads) = 2
       /\ Range(last.out.heads) = {e1, e2}

\* Two different entries have been appended to copies of a log that holds
\* an entry already, and the two logs have been joined
C18_Witness ==
  /\ JoinedDivergent
  /\ Len(last.a.items) = 2
  /\ Len(last.out.items) = 3

\* C27: without an id override, join(a, b).id is the smaller of a.id and
\* b.id in string order, so join(a, b).id equals join(b, a).id, and an
\* append on the joined log stamps its new entry with that id.
C27_JoinIdIsSmallerId ==
  /\ last.op = "join" =>
       /\ last.out.id = Min(last.a.id, last.b.id)
       /\ last.out.id = join(last.b, last.a, 0).id
  /\ last.op = "append" =>
       last.out.items[Len(last.out.items)].id = last.a.id

SeqUndefined(items) ==
  [i \in 1..Len(items) |->
     [hash |-> items[i].hash, id |-> items[i].id, seq |-> 0, next |-> items[i].next]]

\* C31: deterministic order is an invariant of every log: after each
\* log-producing operation the items of the log returned are the output of
\* sort applied to them; in particular appending the new entry at the end
\* gives the sorted order.
C31_ItemsAreSorted ==
  last.op \in {"append", "join"} =>
    LET sorted == sort(SeqUndefined(last.out.items))
    IN /\ sorted.queue = <<>>
       /\ ItemHashes(sorted.result) = ItemHashes(last.out.items)

\* C32: heads depends only on the set of items: find_heads lists the head
\* hashes in one order for every array holding the same entries, so
\* join(a, b) and join(b, a) have the same heads sequence, also when two
\* heads share an id.
C32_HeadsDependOnItemsOnly ==
  last.op = "join" =>
    /\ last.out.heads = join(last.b, last.a, 0).heads
    /\ \A p \in Permutations(1..Len(last.out.items)) :
         ItemHashes(findHeadEntries(Permute(last.out.items, p)))
           = ItemHashes(findHeadEntries(last.out.items))

\* ------------------------------------------- claims on persisting and loading

Loaded == persist.op = "fromMultihash"

\* C13: round trip: for every log L with at least one item and one head,
\* fromMultihash of toMultihash of L with unbounded length returns a log
\* whose items equal L.items in the same order.
C13_RoundTrip ==
  (Loaded /\ persist.length = -1 /\ Len(persist.log.items) > 0 /\ Len(persist.log.heads) > 0)
    => persist.out.items = persist.log.items

\* C14: size-capped reconstruction returns exactly the requested number of
\* entries: for a persisted log, with one or several heads and any
\* branching, from which at least k entries are reachable in the store,
\* fromMultihash with length k > 0 returns a log with exactly k items.
C14_CappedLoadCount ==
  (Loaded /\ persist.length > 0
     /\ Cardinality(ReachableFrom(store, Range(persist.log.heads))) >= persist.length)
    => Len(persist.out.items) = persist.length

\* The log is one chain: each item has the item before it as its only next,
\* the first has none, and the last is the only head
SingleChain(log) ==
  /\ Len(log.items) > 0
  /\ \A i \in 1..Len(log.items) :
       log.items[i].next = IF i = 1 THEN <<>> ELSE <<log.items[i - 1].hash>>
  /\ log.heads = <<log.items[Len(log.items)].hash>>

\* C15: for a single-chain log L of n entries and any k with 0 < k < n,
\* fromMultihash of toMultihash of L with length k returns exactly the last
\* k entries of L.items, in the same order.
C15_CappedLoadOfChain ==
  (Loaded /\ SingleChain(persist.log)
     /\ persist.length > 0 /\ persist.length < Len(persist.log.items))
    => persist.out.items = SubSeq(persist.log.items,
                                  Len(persist.log.items) - persist.length + 1,
                                  Len(persist.log.items))

\* A chain of three entries has been persisted and loaded with length 2
C15_Witness ==
  /\ Loaded
  /\ SingleChain(persist.log)
  /\ Len(persist.log.items) = 3
  /\ persist.length = 2
  /\ Len(persist.out.items) = 2

\* A log persisted with several heads has been loaded with a length k >= 0
\* smaller than the number of its heads
CappedBelowHeads ==
  /\ Loaded
  /\ Len(persist.log.heads) > 1
  /\ persist.length >= 0
  /\ persist.length < Len(persist.log.heads)

\* C39: a size-capped reconstruction has no dangling heads: for a persisted
\* log with several heads and any k >= 0 smaller than the number of
\* persisted heads, every digest in the heads of fromMultihash(ipfs, h, k)
\* is the hash of an entry in its items.
C39_CappedLoadHeadsInItems ==
  CappedBelowHeads => HeadSet(persist.out) \subseteq HashSet(persist.out)

\* A log of two heads has been loaded with length 1 and the log returned
\* has two heads
C39_Witness ==
  /\ CappedBelowHeads
  /\ persist.length = 1
  /\ Len(persist.out.heads) > 1

\* C19: toMultihash fails with the empty-log error when log.items is empty
\* or when log.heads is empty, and then nothing is written to the block
\* store.
C19_EmptyLogNotPersisted ==
  (persist.op = "toMultihash"
     /\ (Len(persist.log.items) = 0 \/ Len(persist.log.heads) = 0))
    => persist.threw /\ ~persist.put

\* C20: the fetcher respects its cap: for N >= 0 it returns at most N
\* entries, and exactly the smaller of N and the number of entries reachable
\* from its seed when every block is available; with N < 0 it returns every
\* reachable entry.
C20_FetchCap ==
  Loaded =>
    \A i \in 1..Len(persist.fetched) :
      LET got == persist.fetched[i].result
          reachable == ReachableFrom(store, {persist.fetched[i].seed})
      IN /\ NoDuplicates(ItemHashes(got))
         /\ Range(ItemHashes(got)) \subseteq reachable
         /\ IF persist.length >= 0
            THEN Len(got) = Min(persist.length, Cardinality(reachable))
            ELSE Len(got) = Cardinality(reachable)

\* ------------------------------------------------------ claims on fetching

\* _fetchRecursive or fromEntry has been called
FetchRun == fetch.op \in {"fetch", "fromEntry"}

\* The hashes of the entries the call resolved with
FetchedHashes == Range(ItemHashes(fetch.result))

\* C21: a per-block timeout never fails a fetch: if the get of some digest
\* gets no answer during the traversal, the traversal goes on with the
\* remaining digests and the operation returns, with the entries that could
\* be fetched.
C21_TimeoutNeverFailsFetch ==
  (FetchRun /\ fetch.lost # {}) =>
    /\ ~fetch.pending
    /\ FetchedHashes \cap fetch.lost = {}
    /\ (fetch.length = -1 /\ fetch.all = {}) =>
         FetchedHashes = ReachableFrom(Available(fetch.lost), {fetch.seed}) \ fetch.lost

\* The hashes onProgressCallback was called with, in order
CallHashes == [i \in 1..Len(fetch.calls) |-> fetch.calls[i].hash]

\* The call of onProgressCallback number i reports a seed or follows the
\* call for its parent
CallFollowsParent(i) ==
  LET c == fetch.calls[i]
  IN IF c.hash = fetch.seed
     THEN i = 1 /\ c.depth = 0 /\ c.parent = Null
     ELSE \E j \in 1..(i - 1) :
            /\ fetch.calls[j].hash = c.parent
            /\ c.hash \in Range(EntryFromHash(store, c.parent).next)
            /\ c.depth = fetch.calls[j].depth + 1

\* C22: during one run of the fetcher onProgress is called exactly once for
\* each entry in the result and never for a digest that was skipped or got
\* no answer; a seed is reported with depth 0 and no parent, and every other
\* entry is reported after the entry given as its parent, whose next holds
\* its hash, with depth equal to the parent's depth plus one.
C22_ProgressPerEntry ==
  FetchRun =>
    /\ NoDuplicates(CallHashes)
    /\ Range(CallHashes) \cap (fetch.all \cup fetch.lost) = {}
    /\ ~fetch.pending => (Range(CallHashes) = FetchedHashes /\ Len(fetch.calls) = Len(fetch.result))
    /\ \A i \in 1..Len(fetch.calls) : CallFollowsParent(i)

\* A run that skipped one digest has reported three entries
C22_Witness ==
  /\ FetchRun
  /\ ~fetch.pending
  /\ fetch.all # {}
  /\ Len(fetch.calls) = 3

\* fromEntry has been called with no length, every block at hand, from the
\* last entry of a log that is a single chain
FromEntryOfChain ==
  /\ fetch.op = "fromEntry"
  /\ SingleChain(fetch.a)
  /\ fetch.seed = fetch.a.heads[1]
  /\ fetch.length = -1
  /\ fetch.lost = {}

\* C23: fromEntry reports progress for every item of the log it returns:
\* for a single chain of n entries, fromEntry from the last one with length
\* -1 calls the callback exactly n times, first for the given entry with
\* depth 0, then for each ancestor in reverse causal order with depth 1, 2,
\* ..., n - 1 and with the entry reported before as parent.
C23_FromEntryProgress ==
  FromEntryOfChain =>
    LET n == Len(fetch.a.items)
    IN /\ Len(fetch.out.items) = n
       /\ Len(fetch.calls) = n
       /\ \A i \in 1..Len(fetch.calls) :
            /\ fetch.calls[i].hash = fetch.a.items[n + 1 - i].hash
            /\ fetch.calls[i].depth = i - 1
            /\ fetch.calls[i].parent = IF i = 1 THEN Null ELSE fetch.calls[i - 1].hash

\* fromEntry has loaded a chain of three entries
C23_Witness ==
  /\ FromEntryOfChain
  /\ Len(fetch.a.items) = 3
  /\ Len(fetch.calls) = 3
  /\ ~fetch.pending

\* C38: fromEntry never returns more than asked: for every length >= 0,
\* fromEntry started from one source entry with that length returns a log
\* with at most max(length, 1) items, also when length is smaller than the
\* number of source entries.
C38_FromEntryAtMostLength ==
  (fetch.op = "fromEntry" /\ ~fetch.pending /\ fetch.length >= 0) =>
    Len(fetch.out.items) <= Max(fetch.length, 1)

\* The fetcher has run with no cap, every block at hand and some hashes to
\* exclude, from the last entry of a log that is a single chain
FetchOfChainWithExclude ==
  /\ fetch.op = "fetch"
  /\ SingleChain(fetch.a)
  /\ fetch.seed = fetch.a.heads[1]
  /\ fetch.length = -1
  /\ fetch.lost = {}
  /\ fetch.all # {}

MissingAncestors(log) == ReachableFrom(store, HashSet(log)) \ HashSet(log)

\* expand has returned, called with a length n > 0 on a log that a capped
\* fromEntry returned, with at least n more ancestors in the store
ExpandedCapped ==
  /\ fetch.op = "expand"
  /\ ~fetch.pending
  /\ fetch.before = "fromEntry"
  /\ fetch.beforeLength > 0
  /\ fetch.length > 0
  /\ Cardinality(MissingAncestors(fetch.a)) >= fetch.length

\* C24: expand grows a capped log by the requested amount and keeps what it
\* had: for a log a returned by a capped fromEntry, with at least n more
\* ancestors in the store, expand(a, n) with n > 0 returns a log with exactly
\* |a.items| + n items whose last |a.items| items are a.items in the same
\* order.
C24_ExpandGrowsByLength ==
  ExpandedCapped =>
    LET n == Len(fetch.a.items)
        m == Len(fetch.out.items)
    IN /\ m = n + fetch.length
       /\ SubSeq(fetch.out.items, m - n + 1, m) = fetch.a.items

\* expand with a negative length has returned a log that holds every entry
\* its items reach, and expand has been called on that log
ExpandedAgain ==
  /\ fetch.op = "expand"
  /\ ~fetch.pending
  /\ fetch.before = "expand"
  /\ fetch.beforeLength < 0
  /\ MissingAncestors(fetch.a) = {}

\* C25: expand is idempotent on a fully materialized log: if c = expand(b)
\* with negative length holds every entry reachable from b's items, then
\* expand(c) returns a log with the same items in the same order as c.
C25_ExpandIdempotent ==
  ExpandedAgain => fetch.out.items = fetch.a.items

\* expand has been called a second time on a log of three entries that the
\* first call grew
C25_Witness ==
  /\ ExpandedAgain
  /\ fetch.length < 0
  /\ Len(fetch.a.items) = 3
  /\ Len(fetch.out.items) = 3

\* C29: progress depths strictly increase along every ancestry chain: in one
\* run of the fetcher over any DAG, for any two fetched entries x and y
\* where x is reachable from y via next, the depth reported for x is
\* strictly greater than the depth reported for y, also when x is referenced
\* both directly and through a longer path.
C29_DepthsIncreaseAlongChains ==
  FetchRun =>
    \A i, j \in 1..Len(fetch.calls) :
      LET x == fetch.calls[i]
          y == fetch.calls[j]
      IN x.hash \in ReachableFrom(store, Range(EntryFromHash(store, y.hash).next))
           => x.depth > y.depth

\* ----------------------------------------------- claims on Entry.create

\* Entry.create was called with an id, seq, payload or next that the
\* validation is to refuse
InvalidEntryArgs ==
  /\ last.op = "Entry.create"
  /\ \/ last.id \in {<<>>, <<"">>}
     \/ last.seq = <<>>
     \/ last.data = <<>>
     \/ last.next.kind \in {"null", "string"}

\* C35: Entry.create rejects an empty id: create with id the empty string
\* fails with an invalid-argument error, as it does for a missing id, seq or
\* payload or a next that is not a sequence, and nothing is written to the
\* block store in any of these cases.
C35_CreateRejectsInvalidArgs ==
  InvalidEntryArgs =>
    /\ last.error # ""
    /\ ~last.put
    /\ store = last.before

\* ------------------------------------------------------ claims on the sort

\* sort has returned
Returned == srt.pc = "done"

\* C5: sort is independent of input order: for every acyclic set of entries
\* and every permutation of it given as the input array, sort returns the
\* same sequence.
C5_SortOrderIndependent ==
  Returned =>
    \A p \in Permutations(1..Len(input)) :
      LET other == sort(Permute(input, p))
      IN other.queue = <<>> => other.result = srt.st.result

RECURSIVE Closure(_, _)
\* The hashes of entries reached from the hashes S by following next
Closure(entries, S) ==
  LET T == S \cup {h \in Range(ItemHashes(entries)) :
                     \E i \in 1..Len(entries) : entries[i].hash \in S /\ h \in Range(entries[i].next)}
  IN IF T = S THEN S ELSE Closure(entries, T)

\* The hashes of the entries reachable from b by following next inside entries
Ancestors(entries, b) == Closure(entries, Range(b.next) \cap Range(ItemHashes(entries)))

\* C6: sort is causal: for any two entries a, b of an acyclic input where a
\* is reachable from b by following next digests inside the input, a
\* appears before b in the array sort returns.
C6_SortCausal ==
  Returned =>
    LET out == ItemHashes(srt.st.result)
    IN \A i \in 1..Len(input) : \A a \in Ancestors(input, input[i]) :
         /\ IndexOf(out, a) > -1
         /\ IndexOf(out, input[i].hash) > -1
         /\ IndexOf(out, a) < IndexOf(out, input[i].hash)

\* sort has returned for an input whose first entry is the end of a chain
\* of three, its two ancestors coming later in the input
C6_Witness ==
  /\ Returned
  /\ Len(input) = MaxSortEntries
  /\ Cardinality(Ancestors(input, input[1])) = 2
  /\ Len(srt.st.result) = MaxSortEntries

\* C36: sort terminates: for every finite set of entries whose next edges
\* form a DAG, whatever the id and seq values of the entries, the work queue
\* of sort eventually becomes empty and sort returns.  The loop is
\* deterministic, so a loop that ends never comes back to a state it has
\* been in with entries left in its queue.
C36_SortTerminates ==
  (srt.pc = "loop" /\ srt.st.queue # <<>>) =>
    \A k \in 1..Len(input) : sortRun(input, srt.st, k) # srt.st

\* C37: sort neither loses nor duplicates entries: for every finite acyclic
\* set E of entries with pairwise distinct hashes, the output of sort(E)
\* contains each entry of E exactly once and nothing else, also when some
\* entries reference digests outside E or when several entries share an id
\* and a seq.
C37_SortKeepsEntries ==
  /\ NoDuplicates(ItemHashes(srt.st.result))
  /\ Range(srt.st.result) \subseteq Range(input)
  /\ Returned => Range(srt.st.result) = Range(input)

\* sort has returned for an input of three entries of which two share an id
\* and a seq and one references a digest outside the input
C37_Witness ==
  /\ Returned
  /\ Len(input) = MaxSortEntries
  /\ \E i, j \in 1..Len(input) :
       i # j /\ input[i].id = input[j].id /\ input[i].seq = input[j].seq
  /\ \E i \in 1..Len(input) : Outside \in Range(input[i].next)

\* The array with each entry reduced to the fields it was created with
CreatedFields(entries) ==
  [i \in 1..Len(entries) |->
     [hash |-> entries[i].hash, id |-> entries[i].id, seq |-> entries[i].seq,
      next |-> entries[i].next]]

\* C40: sort has no effect on its input: after sort(E) the input array holds
\* the same entries in the same order, and every entry has exactly the same
\* fields and values as before the call.
C40_SortLeavesInputAlone ==
  Returned =>
    /\ CreatedFields(srt.st.entries) = input
    /\ \A i \in 1..Len(input) : DOMAIN srt.st.entries[i] = DOMAIN input[i]

\* C28: sort is idempotent: for every finite acyclic set E of entries,
\* sorting the output of sort(E) again yields the same sequence.
C28_SortIdempotent ==
  Returned =>
    LET again == sort(srt.st.result)
    IN /\ again.queue = <<>>
       /\ again.result = srt.st.result

====
